---- MODULE Spec2Model ----
(***************************************************************************)
(* Model of api/create-session.py: the serverless handler that proxies a   *)
(* ChatKit session-creation request.  One request is in flight at a time   *)
(* (one invocation per inbound request); the only state that survives a    *)
(* request is the cookie the browser keeps.                                 *)
(*                                                                         *)
(* Python strings are sequences of tokens (each token a TLA+ string that   *)
(* stands for a run of characters containing no ';', '=' or blank, or for  *)
(* exactly one of those three characters), so that split, strip and        *)
(* startswith are computed and not assumed.  Python values are records     *)
(* [t, s]: t is the type ("absent" for a missing key or unset variable,    *)
(* "none" for None/null, "str", "int", "dict"), s the text.                *)
(***************************************************************************)
EXTENDS Naturals, Sequences, FiniteSets

\* ------------------------------------------------------------------ bounds
\* Size of the pool uuid.uuid4() draws from.
MaxUUID == 2
\* Largest number of ';'-separated pairs in a generated Cookie header.
MaxCookies == 2

\* ------------------------------------------------------------ Python values
Absent == [t |-> "absent", s |-> <<>>]
PyNone == [t |-> "none", s |-> <<>>]
Str(x) == [t |-> "str", s |-> x]
Lit(c) == Str(<<c>>)

\* Python truthiness of the values the handler tests with `not` / `or`.
Truthy(v) ==
    CASE v.t = "absent" -> FALSE
      [] v.t = "none" -> FALSE
      [] v.t = "str" -> v.s # <<>>
      [] v.t = "int" -> v.s # <<"0">>
      [] v.t = "dict" -> v.s # <<>>
      [] OTHER -> TRUE

\* dict.get(key) / os.getenv(name): a missing key or unset variable is None.
Get(v) == IF v.t = "absent" THEN PyNone ELSE v

\* Python `a or b`.
PyOr(a, b) == IF Truthy(a) THEN a ELSE b

\* ----------------------------------------------------------- Python strings
IsSpace(c) == c = " "

RECURSIVE LStrip(_)
LStrip(s) == IF s # <<>> /\ IsSpace(Head(s)) THEN LStrip(Tail(s)) ELSE s

RECURSIVE RStrip(_)
RStrip(s) ==
    IF s # <<>> /\ IsSpace(s[Len(s)]) THEN RStrip(SubSeq(s, 1, Len(s) - 1)) ELSE s

\* str.strip()
Strip(s) == RStrip(LStrip(s))

\* str.startswith(p)
StartsWith(s, p) == Len(s) >= Len(p) /\ SubSeq(s, 1, Len(p)) = p

\* Index of the first occurrence of token c in s, 0 when there is none.
RECURSIVE IndexOf(_, _, _)
IndexOf(s, c, i) ==
    IF i > Len(s) THEN 0 ELSE IF s[i] = c THEN i ELSE IndexOf(s, c, i + 1)

\* str.split(c): the pieces between the occurrences of c (always >= 1 piece).
RECURSIVE Split(_, _)
Split(s, c) ==
    LET i == IndexOf(s, c, 1)
    IN  IF i = 0 THEN <<s>>
        ELSE <<SubSeq(s, 1, i - 1)>> \o Split(SubSeq(s, i + 1, Len(s)), c)

\* str.split(c, 1)[1]: what follows the first c (s is known to contain c).
AfterFirst(s, c) == SubSeq(s, IndexOf(s, c, 1) + 1, Len(s))

COOKIE_NAME == <<"chatkit_session_id">>

\* A mutant of get_cookie_value: the value is taken after the LAST '=' of the
\* pair and an empty value counts as no cookie.
RECURSIVE LastField(_)
LastField(s) == IF IndexOf(s, "=", 1) = 0 THEN s ELSE LastField(AfterFirst(s, "="))

RECURSIVE get_cookie_value_from(_, _, _)
get_cookie_value_from(parts, name, i) ==
    IF i > Len(parts) THEN PyNone
    ELSE LET cookie == Strip(parts[i])
         IN  IF StartsWith(cookie, name \o <<"=">>)
             THEN Str(AfterFirst(cookie, "="))
             ELSE get_cookie_value_from(parts, name, i + 1)

get_cookie_value_last(cookie_header, name) ==
    LET v == get_cookie_value_from(Split(cookie_header, ";"), name, 1)
    IN  IF v.t = "str" /\ v.s # <<>> THEN Str(LastField(v.s)) ELSE PyNone

\* handler.get_cookie_value: the first ';'-separated pair that, stripped,
\* starts with name=; None when there is none.
get_cookie_value(cookie_header, name) ==
    get_cookie_value_from(Split(cookie_header, ";"), name, 1)

\* ------------------------------------------------------------------ inputs
UUIDNames == <<"u1", "u2", "u3", "u4">>
\* The values str(uuid.uuid4()) can take.
UUIDs == { <<UUIDNames[i]>> : i \in 1..MaxUUID }

\* Environment values: unset, set to the empty string, set.
ApiKeys == { Absent, Str(<<>>), Lit("sk-key") }
EnvWorkflowIds == { Absent, Str(<<>>), Lit("E") }

\* JSON values of body.workflow.id and body.workflowId.
WorkflowIdVals == { Absent, PyNone, Str(<<>>), Lit("A") }
TopWorkflowIdVals == { Absent, Str(<<>>), Lit("B") }

\* A parsed request body: t is the Python type of json.loads' result; for a
\* dict, wf is body['workflow'] ("absent", a non-mapping "str", or a "dict"
\* whose 'id' entry is wfid) and wid is body['workflowId'].
Body(t, wf, wfid, wid) == [t |-> t, wf |-> wf, wfid |-> wfid, wid |-> wid]
EmptyDict == Body("dict", "absent", Absent, Absent)
DictBodies ==
    { Body("dict", "dict", i, w) : i \in WorkflowIdVals, w \in TopWorkflowIdVals }
    \cup { Body("dict", wf, Absent, w) : wf \in {"absent", "str"}, w \in TopWorkflowIdVals }
NonDictBodies ==
    { Body(t, "absent", Absent, Absent) : t \in {"list", "int", "none"} }

\* The request as sent: the Content-Length header ("absent", "nonnumeric", or
\* "exact": the length of the content) and the content ("empty"; "malformed":
\* not JSON; "deep": nested beyond the interpreter's recursion limit; "json":
\* the text of value json).
Raw(clen, content, json) == [clen |-> clen, content |-> content, json |-> json]
RawBodies ==
    { Raw("exact", "json", b) : b \in DictBodies \cup NonDictBodies }
    \cup { Raw("exact", c, EmptyDict) : c \in {"empty", "malformed", "deep"} }
    \cup { Raw(l, "json", Body("dict", "absent", Absent, Lit("B"))) :
              l \in {"absent", "nonnumeric"} }

\* Cookie headers: up to MaxCookies pairs joined by "; ", and a few single
\* pairs that are not entries of the session cookie.
CookiePairs ==
    { COOKIE_NAME \o <<"=", "v", "=", "w">>,
      <<"other", "=", "v">> }
RECURSIVE JoinedPairs(_)
JoinedPairs(n) ==
    IF n = 0 THEN { <<>> }
    ELSE JoinedPairs(n - 1) \cup CookiePairs
         \cup { h \o <<";", " ">> \o p :
                   h \in JoinedPairs(n - 1) \ { <<>> }, p \in CookiePairs }
OddCookieHeaders ==
    { COOKIE_NAME,
      COOKIE_NAME \o <<"=">>,
      <<"xchatkit_session_id", "=", "v">>,
      <<"Chatkit_Session_Id", "=", "v">>,
      COOKIE_NAME \o <<" ", "=", "v">>,
      <<" ">> \o COOKIE_NAME \o <<"=", " ", "v", " ">> }
CookieHeaders == JoinedPairs(MaxCookies) \cup OddCookieHeaders

\* A JSON document returned by the upstream: t is "text" (not JSON), "list" or
\* "dict"; for a dict, client_secret and error are its entries of those names.
UpBody(t, cs, err) == [t |-> t, client_secret |-> cs, error |-> err]
UpSuccessBodies ==
    { UpBody("text", Absent, Absent), UpBody("list", Absent, Absent) }
    \cup { UpBody("dict", cs, Absent) : cs \in {Absent, Str(<<>>), Lit("sk_abc")} }
UpErrorBodies ==
    { UpBody("text", Absent, Absent), UpBody("list", Absent, Absent) }
    \cup { UpBody("dict", Absent, e) :
              e \in { Absent, Lit("rate limited"), PyNone,
                      [t |-> "dict", s |-> <<"message">>],
                      [t |-> "int", s |-> <<"5">>] } }

\* What urlopen does: returns a response (2xx), raises HTTPError with the
\* upstream's status and body, or raises another exception.
Outcome(kind, code, body) == [kind |-> kind, code |-> code, body |-> body]
NoOutcome == Outcome("none", 0, UpBody("text", Absent, Absent))
Outcomes ==
    { Outcome("ok", 200, b) : b \in UpSuccessBodies }
    \cup { Outcome("http_error", 429, b) : b \in UpErrorBodies }
    \cup { Outcome("http_error", 401, b) :
              b \in { UpBody("dict", Absent, Lit("rate limited")),
                      UpBody("text", Absent, Absent) } }
    \cup { Outcome("url_error", 0, UpBody("text", Absent, Absent)),
           Outcome("timeout", 0, UpBody("text", Absent, Absent)) }

\* ------------------------------------------------------------------- state
VARIABLES
    pc,           \* where the invocation stands: "idle", a step of do_POST, "done", "crashed"
    method,       \* "POST", "OPTIONS" or "" when idle
    env,          \* the process environment read by os.getenv
    raw,          \* the request's Content-Length and content
    cookie_header,\* the request's Cookie header ('' when there is none)
    body,         \* do_POST's local body, once parsed
    body_read,    \* whether rfile / Content-Length were touched
    workflow_id,  \* do_POST's local workflow_id
    user_id,      \* do_POST's local user_id
    new_cookie,   \* do_POST's local new_cookie
    calls,        \* the urlopen calls issued by this invocation, in order
    outcome,      \* what the urlopen call did
    exc,          \* str(e) of the exception being handled
    raised,       \* the exception that left the handler uncaught ("" if none)
    responses,    \* the responses this invocation began (send_response), in order
    jar           \* the name=value pair the browser stored from Set-Cookie (<<>> if none)

vars == <<pc, method, env, raw, cookie_header, body, body_read, workflow_id,
          user_id, new_cookie, calls, outcome, exc, raised, responses, jar>>

NoRaw == Raw("absent", "empty", EmptyDict)
Env(key, wf, base, vbase) ==
    [OPENAI_API_KEY |-> key, VITE_CHATKIT_WORKFLOW_ID |-> wf,
     CHATKIT_API_BASE |-> base, VITE_CHATKIT_API_BASE |-> vbase]
NoEnv == Env(Absent, Absent, Absent, Absent)
\* The environments of an invocation.  The two base-URL overrides are both
\* unset or both set.
Envs ==
    { Env(k, w, b[1], b[2]) :
        k \in ApiKeys, w \in EnvWorkflowIds,
        b \in { <<Absent, Absent>>, <<Lit("http://mock"), Lit("http://vite")>> } }
NoBody == Body("unparsed", "absent", Absent, Absent)

\* The locals of a fresh invocation.
Fresh ==
    /\ body = NoBody
    /\ body_read = FALSE
    /\ workflow_id = PyNone
    /\ user_id = PyNone
    /\ new_cookie = FALSE
    /\ calls = <<>>
    /\ outcome = NoOutcome
    /\ exc = <<>>
    /\ raised = ""
    /\ responses = <<>>

Init ==
    /\ pc = "idle"
    /\ method = ""
    /\ env = NoEnv
    /\ raw = NoRaw
    /\ cookie_header = <<>>
    /\ Fresh
    /\ jar = <<>>

\* ---------------------------------------------------------------- responses
\* How far a response got on the wire: end_headers flushes the status line and
\* headers, then wfile.write sends the body; either write may raise OSError.
WriteResults == {"all", "headers", "none"}

CORS_ORIGIN == <<"Access-Control-Allow-Origin", <<"*">>>>
CORS_METHODS == <<"Access-Control-Allow-Methods", <<"POST, OPTIONS">>>>
CORS_HEADERS == <<"Access-Control-Allow-Headers", <<"Content-Type">>>>
CONTENT_JSON == <<"Content-Type", <<"application/json">>>>
COOKIE_ATTRS ==
    <<";", " ", "Path", "=", "/", ";", " ", "Max-Age", "=", "2592000",
      ";", " ", "HttpOnly", ";", " ", "SameSite", "=", "Lax">>

Response(status, headers, key, val, sent) ==
    [status |-> status, headers |-> headers, key |-> key, val |-> val, sent |-> sent]

\* handler.send_error_response: status, two headers, {"error": message}.
send_error_response(code, message, w) ==
    Response(code, {CONTENT_JSON, CORS_ORIGIN}, "error", message, w)

\* The Set-Cookie header values of a response.
SetCookies(r) == { h[2] : h \in { x \in r.headers : x[1] = "Set-Cookie" } }

\* The name=value pair a browser keeps from a Set-Cookie value: what precedes
\* the first ';'.
CookiePairOf(set_cookie) == Split(set_cookie, ";")[1]

\* The browser's cookie after the responses rs: a response whose headers
\* reached the wire and carry Set-Cookie replaces the stored pair.
RECURSIVE StoredCookie(_, _)
StoredCookie(rs, stored) ==
    IF rs = <<>> THEN stored
    ELSE LET r == Head(rs)
             now == IF r.sent # "none" /\ SetCookies(r) # {}
                    THEN CookiePairOf(CHOOSE c \in SetCookies(r) : TRUE)
                    ELSE stored
         IN  StoredCookie(Tail(rs), now)

\* ----------------------------------------------------------------- do_POST
\* A request arrives: the runtime constructs the handler and calls do_POST.
ReceivePOST ==
    /\ pc = "idle"
    /\ pc' = "api_key"
    /\ method' = "POST"
    /\ env' \in Envs
    /\ raw' \in RawBodies
    /\ cookie_header' \in CookieHeaders \cup {jar}
    /\ UNCHANGED <<body, body_read, workflow_id, user_id, new_cookie, calls,
                   outcome, exc, raised, responses, jar>>

\* The handler returns after a response written with result w, or the write's
\* OSError leaves it.
EndWith(r, w) ==
    /\ responses' = Append(responses, r)
    /\ pc' = IF w = "all" THEN "done" ELSE "crashed"
    /\ raised' = IF w = "all" THEN "" ELSE "OSError"

\* A mutant of CheckApiKey: the key is looked at only after the body is read.
CheckApiKeyLate ==
    /\ pc = "api_key"
    /\ pc' = "parse"
    /\ UNCHANGED <<method, env, raw, cookie_header, body, body_read, workflow_id,
                   user_id, new_cookie, calls, outcome, exc, raised, responses, jar>>

\* Lines 16-19.
CheckApiKey ==
    /\ pc = "api_key"
    /\ LET api_key == Get(env.OPENAI_API_KEY)
       IN  IF ~Truthy(api_key)
           THEN \E w \in WriteResults :
                   EndWith(send_error_response(500, Lit("Missing OPENAI_API_KEY"), w), w)
           ELSE /\ pc' = "parse"
                /\ UNCHANGED <<raised, responses>>
    /\ UNCHANGED <<method, env, raw, cookie_header, body, body_read, workflow_id,
                   user_id, new_cookie, calls, outcome, exc, jar>>

\* json.loads on the request content: the value, or the exception raised.
Loaded(raises, val) == [raises |-> raises, val |-> val]
json_loads(content, json) ==
    CASE content = "malformed" -> Loaded("JSONDecodeError", NoBody)
      [] content = "deep" -> Loaded("RecursionError", NoBody)
      [] OTHER -> Loaded("", json)

\* Lines 22-27: the parsed body, or the exception the except clause lets through.
\* int() of a non-numeric Content-Length raises ValueError; an absent header
\* reads 0 bytes; empty bytes are {} without parsing.
CAUGHT_ON_PARSE == {"ValueError", "JSONDecodeError"}
ParseResult(r) ==
    LET attempt ==
          CASE r.clen = "nonnumeric" -> Loaded("ValueError", NoBody)
            [] r.clen = "absent" \/ r.content = "empty" -> Loaded("", EmptyDict)
            [] OTHER -> json_loads(r.content, r.json)
    IN  IF attempt.raises \in CAUGHT_ON_PARSE THEN Loaded("", EmptyDict) ELSE attempt

ParseBody ==
    /\ pc = "parse"
    /\ body_read' = TRUE
    /\ LET res == ParseResult(raw)
       IN  IF res.raises = ""
           THEN /\ body' = res.val
                /\ pc' = "workflow"
                /\ raised' = raised
           ELSE /\ body' = body
                /\ pc' = "crashed"
                /\ raised' = res.raises
    /\ UNCHANGED <<method, env, raw, cookie_header, workflow_id, user_id,
                   new_cookie, calls, outcome, exc, responses, jar>>

\* A mutant of ResolveWorkflowId: body.workflowId is consulted before
\* body.workflow.id.
ResolveWorkflowIdSwapped(b, envwf) ==
    IF b.t # "dict" THEN Loaded("TypeError", PyNone)
    ELSE Loaded("", PyOr(PyOr(Get(b.wid),
                              IF b.wf = "dict" THEN Get(b.wfid) ELSE PyNone),
                         Get(envwf)))

\* Lines 30-33: the resolved workflow id, or the exception raised on the way.
\* `'workflow' in body` raises TypeError on an int or None and is False on a
\* list; body.get raises AttributeError on anything but a dict.
ResolveWorkflowId(b, envwf) ==
    IF b.t \in {"int", "none"} THEN Loaded("TypeError", PyNone)
    ELSE LET has_mapping == b.t = "dict" /\ b.wf # "absent" /\ b.wf = "dict"
             first == IF has_mapping THEN Get(b.wfid) ELSE PyNone
         IN  IF Truthy(first) THEN Loaded("", first)
             ELSE IF b.t # "dict" THEN Loaded("AttributeError", PyNone)
             ELSE Loaded("", PyOr(Get(b.wid), Get(envwf)))

\* Lines 30-37.
ResolveWorkflow ==
    /\ pc = "workflow"
    /\ LET res == ResolveWorkflowId(body, env.VITE_CHATKIT_WORKFLOW_ID)
       IN  IF res.raises # ""
           THEN /\ pc' = "crashed"
                /\ raised' = res.raises
                /\ UNCHANGED <<workflow_id, responses>>
           ELSE /\ workflow_id' = res.val
                /\ IF ~Truthy(res.val)
                   THEN \E w \in WriteResults :
                           EndWith(send_error_response(400, Lit("Missing workflow id"), w), w)
                   ELSE /\ pc' = "cookie"
                        /\ UNCHANGED <<raised, responses>>
    /\ UNCHANGED <<method, env, raw, cookie_header, body, body_read, user_id,
                   new_cookie, calls, outcome, exc, jar>>

\* Lines 40-45.
ResolveUser ==
    /\ pc = "cookie"
    /\ LET found == get_cookie_value(cookie_header, COOKIE_NAME)
       IN  /\ new_cookie' = (found.t = "none")
           /\ IF found.t = "none"
              THEN \E u \in UUIDs : user_id' = Str(u)
              ELSE user_id' = found
    /\ pc' = "upstream"
    /\ UNCHANGED <<method, env, raw, cookie_header, body, body_read, workflow_id,
                   calls, outcome, exc, raised, responses, jar>>

\* Line 47-48.
DEFAULT_API_BASE == Lit("https://api.openai.com")
SESSIONS_PATH == <<"/v1/chatkit/sessions">>
ApiUrl(e) ==
    PyOr(PyOr(Get(e.CHATKIT_API_BASE), Get(e.VITE_CHATKIT_API_BASE)),
         DEFAULT_API_BASE).s \o SESSIONS_PATH

\* Lines 50-64: the request handed to urlopen.
UpstreamRequest(e, wf, user) ==
    [url |-> ApiUrl(e), workflow |-> wf, user |-> user,
     authorization |-> <<"Bearer ">> \o Get(e.OPENAI_API_KEY).s, timeout |-> 10]

\* str(e) of the exceptions urlopen raises besides HTTPError.
ExcText(kind) ==
    IF kind = "timeout" THEN <<"<urlopen error timed out>">>
    ELSE <<"<urlopen error [Errno 111] Connection refused>">>

\* Lines 66-67: the one urlopen call and what it does.
CallUpstream ==
    /\ pc = "upstream"
    /\ calls' = Append(calls, UpstreamRequest(env, workflow_id, user_id))
    /\ \E o \in Outcomes :
          /\ outcome' = o
          /\ pc' = CASE o.kind = "ok" -> "on_success"
                     [] o.kind = "http_error" -> "on_http_error"
                     [] OTHER -> "on_exception"
          /\ exc' = IF o.kind \in {"ok", "http_error"} THEN exc ELSE ExcText(o.kind)
    /\ UNCHANGED <<method, env, raw, cookie_header, body, body_read, workflow_id,
                   user_id, new_cookie, raised, responses, jar>>

\* The exception raised inside the try block of lines 66-85 is handled by the
\* `except Exception` clause of line 96.
CaughtByExceptException(text) ==
    /\ pc' = "on_exception"
    /\ exc' = text

BROKEN_PIPE == <<"[Errno 32] Broken pipe">>

\* A mutant of SuccessResponse: Set-Cookie is sent whether or not the identity
\* is new.
SuccessResponseAlwaysCookie(client_secret, user, is_new, w) ==
    Response(200,
             {CONTENT_JSON, CORS_ORIGIN, CORS_METHODS, CORS_HEADERS,
              <<"Set-Cookie", COOKIE_NAME \o <<"=">> \o user.s \o COOKIE_ATTRS>>},
             "client_secret", client_secret, w)

\* Lines 75-85: the 200 response.
SuccessResponse(client_secret, user, is_new, w) ==
    Response(200,
             {CONTENT_JSON, CORS_ORIGIN, CORS_METHODS, CORS_HEADERS}
               \cup (IF is_new
                     THEN { <<"Set-Cookie", COOKIE_NAME \o <<"=">> \o user.s \o COOKIE_ATTRS>> }
                     ELSE {}),
             "client_secret", client_secret, w)

\* Lines 68-85, inside the try block.
OnSuccess ==
    /\ pc = "on_success"
    /\ LET result == outcome.body
       IN  CASE result.t = "text" ->
                  /\ CaughtByExceptException(<<"Expecting value: line 1 column 1 (char 0)">>)
                  /\ UNCHANGED responses
             [] result.t = "list" ->
                  /\ CaughtByExceptException(<<"'list' object has no attribute 'get'">>)
                  /\ UNCHANGED responses
             [] OTHER ->
                  LET client_secret == Get(result.client_secret)
                  IN  \E w \in WriteResults :
                        /\ responses' = Append(responses,
                              IF ~Truthy(client_secret)
                              THEN send_error_response(502, Lit("Missing client secret"), w)
                              ELSE SuccessResponse(client_secret, user_id, new_cookie, w))
                        /\ IF w = "all"
                           THEN pc' = "done" /\ exc' = exc
                           ELSE CaughtByExceptException(BROKEN_PIPE)
    /\ UNCHANGED <<method, env, raw, cookie_header, body, body_read, workflow_id,
                   user_id, new_cookie, calls, outcome, raised, jar>>

\* str(e) of an HTTPError.
HTTPErrorText(code) ==
    IF code = 429 THEN <<"HTTP Error 429: Too Many Requests">>
    ELSE <<"HTTP Error 401: Unauthorized">>

\* A mutant of ErrorMsg: the `error` entry is read without a default.
ErrorMsgNoDefault(o) ==
    IF o.body.t = "dict" THEN Get(o.body.error) ELSE Str(HTTPErrorText(o.code))

\* Lines 88-92: the message relayed for an upstream HTTP error.  json.loads
\* raises on text that is not JSON and .get raises on a list; both land in the
\* bare except.
ErrorMsg(o) ==
    IF o.body.t = "dict" /\ o.body.error.t # "absent"
    THEN o.body.error
    ELSE Str(HTTPErrorText(o.code))

\* Line 94: the status relayed.
RelayedStatus(o) == o.code

\* Lines 87-94.  An OSError raised by the write leaves the handler: a sibling
\* except clause does not catch what an except clause raises.
OnHTTPError ==
    /\ pc = "on_http_error"
    /\ \E w \in WriteResults :
          EndWith(send_error_response(RelayedStatus(outcome), ErrorMsg(outcome), w), w)
    /\ UNCHANGED <<method, env, raw, cookie_header, body, body_read, workflow_id,
                   user_id, new_cookie, calls, outcome, exc, jar>>

\* A mutant of OnException: the call is tried again.
OnExceptionRetry ==
    /\ pc = "on_exception"
    /\ pc' = IF Len(calls) < 2 THEN "upstream" ELSE "done"
    /\ UNCHANGED <<method, env, raw, cookie_header, body, body_read, workflow_id,
                   user_id, new_cookie, calls, outcome, exc, raised, responses, jar>>

\* Lines 96-97.
OnException ==
    /\ pc = "on_exception"
    /\ \E w \in WriteResults :
          EndWith(send_error_response(502,
                      Str(<<"Failed to reach ChatKit API: ">> \o exc), w), w)
    /\ UNCHANGED <<method, env, raw, cookie_header, body, body_read, workflow_id,
                   user_id, new_cookie, calls, outcome, exc, jar>>

\* --------------------------------------------------------------- do_OPTIONS
\* Lines 99-105: status and CORS headers, no body; the flush may raise.
do_OPTIONS ==
    /\ pc = "idle"
    /\ method' = "OPTIONS"
    /\ env' \in Envs
    /\ cookie_header' \in CookieHeaders \cup {jar}
    /\ \E w \in {"all", "none"} :
          EndWith(Response(200, {CORS_ORIGIN, CORS_METHODS, CORS_HEADERS}, "", Absent, w), w)
    /\ UNCHANGED <<raw, body, body_read, workflow_id, user_id, new_cookie, calls,
                   outcome, exc, jar>>

\* ------------------------------------------------------------ between calls
\* The invocation is over; the browser keeps the cookie it was sent, and the
\* next invocation starts from fresh locals.
Finish ==
    /\ pc \in {"done", "crashed"}
    /\ jar' = StoredCookie(responses, jar)
    /\ pc' = "idle"
    /\ method' = ""
    /\ env' = NoEnv
    /\ raw' = NoRaw
    /\ cookie_header' = <<>>
    /\ body' = NoBody
    /\ body_read' = FALSE
    /\ workflow_id' = PyNone
    /\ user_id' = PyNone
    /\ new_cookie' = FALSE
    /\ calls' = <<>>
    /\ outcome' = NoOutcome
    /\ exc' = <<>>
    /\ raised' = ""
    /\ responses' = <<>>

Next ==
    \/ ReceivePOST
    \/ CheckApiKey
    \/ ParseBody
    \/ ResolveWorkflow
    \/ ResolveUser
    \/ CallUpstream
    \/ OnSuccess
    \/ OnHTTPError
    \/ OnException
    \/ do_OPTIONS
    \/ Finish

Spec == Init /\ [][Next]_vars

\* ================================================================== claims
Terminal == pc \in {"done", "crashed"}
KeySet == Truthy(Get(env.OPENAI_API_KEY))
IsError(r, status, text) == r.status = status /\ r.key = "error" /\ r.val = Lit(text)
Range(q) == { q[i] : i \in 1..Len(q) }

\* C1: every POST ends with exactly one response begun, the 200 response
\* carrying client_secret or one error response: never none, and never an
\* error response after the 200 status line.
C1_ExactlyOneResponse ==
    /\ (method = "POST" /\ Terminal) =>
          /\ Len(responses) = 1
          /\ \/ responses[1].status = 200 /\ responses[1].key = "client_secret"
             \/ responses[1].key = "error"
    /\ \A i \in 1..Len(responses) : \A j \in 1..Len(responses) :
          (i < j /\ responses[i].status = 200) => responses[j].key # "error"

\* C2: a POST handled while OPENAI_API_KEY is unset or empty answers 500
\* {"error": "Missing OPENAI_API_KEY"} and nothing else, whatever the body, the
\* Cookie header and the rest of the environment; the body is never read and
\* urlopen is never called.
C2_MissingApiKey ==
    (method = "POST" /\ ~KeySet) =>
        /\ ~body_read /\ body = NoBody /\ calls = <<>>
        /\ pc \in {"api_key", "done", "crashed"}
        /\ Terminal =>
              /\ Len(responses) = 1
              /\ IsError(responses[1], 500, "Missing OPENAI_API_KEY")
              /\ SetCookies(responses[1]) = {}
              /\ pc = "done" <=> responses[1].sent = "all"

C2_Witness ==
    /\ method = "POST" /\ pc = "done" /\ ~KeySet
    /\ raw.content = "json" /\ raw.json.wfid = Lit("A")
    /\ get_cookie_value(cookie_header, COOKIE_NAME).t = "str"
    /\ Truthy(env.VITE_CHATKIT_WORKFLOW_ID)
    /\ IsError(responses[1], 500, "Missing OPENAI_API_KEY")

\* The three places a workflow id can come from, in the order of precedence;
\* a field of a body that is no mapping is absent.
NonEmpty(v) == v.t = "str" /\ Len(v.s) > 0
Candidates ==
    << IF body.t = "dict" /\ body.wf = "dict" THEN body.wfid ELSE Absent,
       IF body.t = "dict" THEN body.wid ELSE Absent,
       env.VITE_CHATKIT_WORKFLOW_ID >>
Parsed == body # NoBody

\* C3: with the API key set, a POST in which none of body.workflow.id,
\* body.workflowId and VITE_CHATKIT_WORKFLOW_ID is non-empty answers 400
\* {"error": "Missing workflow id"} without calling the upstream.
C3_MissingWorkflowId ==
    (method = "POST" /\ KeySet /\ Parsed /\ Terminal
       /\ \A i \in 1..3 : ~NonEmpty(Candidates[i])) =>
        /\ calls = <<>>
        /\ Len(responses) = 1
        /\ IsError(responses[1], 400, "Missing workflow id")

\* C4: the workflow id sent upstream is the first non-empty value among
\* body.workflow.id (when body.workflow is a mapping), body.workflowId and
\* VITE_CHATKIT_WORKFLOW_ID, in that order.
C4_WorkflowPrecedence ==
    \A c \in Range(calls) :
        \E i \in 1..3 :
            /\ NonEmpty(Candidates[i])
            /\ \A j \in 1..(i - 1) : ~NonEmpty(Candidates[j])
            /\ c.workflow = Candidates[i]

C4_Witness ==
    /\ calls # <<>>
    /\ body.wf = "dict" /\ body.wfid = Lit("A") /\ body.wid = Lit("B")
    /\ Truthy(env.VITE_CHATKIT_WORKFLOW_ID)
    /\ calls[1].workflow = Lit("A")

\* The Set-Cookie value the handler is to send for identity u.
SessionCookie(u) == COOKIE_NAME \o <<"=">> \o u \o COOKIE_ATTRS
UpstreamSucceeded ==
    outcome.kind = "ok" /\ outcome.body.t = "dict" /\ Truthy(outcome.body.client_secret)

\* C5: cookie round trip.  A POST without Cookie header whose upstream call
\* succeeds answers with Set-Cookie: chatkit_session_id=<u>, <u> being the
\* user sent upstream; a later POST presenting the pair the browser stored from
\* it gets no Set-Cookie and forwards exactly <u> as user.
C5_CookieRoundTrip ==
    /\ (method = "POST" /\ cookie_header = <<>> /\ UpstreamSucceeded /\ responses # <<>>) =>
          /\ Len(calls) = 1
          /\ calls[1].user.t = "str" /\ calls[1].user.s \in UUIDs
          /\ SetCookies(responses[1]) = { SessionCookie(calls[1].user.s) }
    /\ jar # <<>> => \E u \in UUIDs : jar = COOKIE_NAME \o <<"=">> \o u
    /\ (method = "POST" /\ jar # <<>> /\ cookie_header = jar) =>
          /\ \A r \in Range(responses) : SetCookies(r) = {}
          /\ \A c \in Range(calls) : c.user = Str(SubSeq(jar, 3, Len(jar)))

C5_Witness ==
    /\ method = "POST" /\ pc = "done"
    /\ jar # <<>> /\ cookie_header = jar
    /\ UpstreamSucceeded
    /\ Len(calls) = 1 /\ calls[1].user = Str(SubSeq(jar, 3, Len(jar)))
    /\ responses[1].status = 200 /\ SetCookies(responses[1]) = {}

\* The session-cookie entries of a Cookie header, read off the header without
\* splitting it: positions of the name, directly followed by '=', with nothing
\* but blanks between it and the preceding ';' (or the start).
RECURSIVE PairStart(_, _)
PairStart(h, i) ==
    \/ i = 1
    \/ h[i - 1] = ";"
    \/ h[i - 1] = " " /\ PairStart(h, i - 1)
Entries(h) ==
    { i \in 1..(Len(h) - 1) :
        h[i] = "chatkit_session_id" /\ h[i + 1] = "=" /\ PairStart(h, i) }
Least(S) == CHOOSE i \in S : \A j \in S : i <= j
\* The value of the first entry: what lies between its '=' and the next ';'
\* (or the end), less the blanks that end it.
EntryValue(h) ==
    LET i == Least(Entries(h))
        e == Least({ j \in (i + 1)..Len(h) : h[j] = ";" } \cup { Len(h) + 1 })
    IN  RStrip(SubSeq(h, i + 2, e - 1))

\* C6: a response carries Set-Cookie exactly when it is the 200 response of a
\* POST whose Cookie header has no chatkit_session_id entry (a new identity is
\* then minted); with an entry, even an empty one, its value is the user sent
\* upstream; error and OPTIONS responses never carry Set-Cookie.
C6_SetCookieIffNewIdentity ==
    /\ \A r \in Range(responses) :
          SetCookies(r) # {} <=>
             /\ method = "POST" /\ r.status = 200 /\ r.key = "client_secret"
             /\ Entries(cookie_header) = {}
    /\ \A r \in Range(responses) : \A c \in Range(calls) :
          SetCookies(r) \subseteq { SessionCookie(c.user.s) }
    /\ \A c \in Range(calls) :
          IF Entries(cookie_header) # {}
          THEN c.user = Str(EntryValue(cookie_header))
          ELSE c.user.t = "str" /\ c.user.s \in UUIDs

C6_Witness ==
    /\ method = "POST" /\ pc = "done"
    /\ cookie_header = COOKIE_NAME \o <<"=">>
    /\ Len(calls) = 1 /\ calls[1].user = Str(<<>>)
    /\ responses[1].status = 200 /\ SetCookies(responses[1]) = {}

\* The `error` entry of an upstream body; a body that is no object has none.
ErrorField(b) == IF b.t = "dict" THEN b.error ELSE Absent

\* C7 as claimed: an upstream HTTP error with status S is answered with status
\* S and {"error": m}, m being the `error` field of the upstream body whenever
\* that body parses as JSON, and the raw error text otherwise.
C7_RelayAsClaimed ==
    (Terminal /\ outcome.kind = "http_error") =>
        /\ Len(responses) = 1
        /\ responses[1].status = outcome.code /\ responses[1].key = "error"
        /\ responses[1].val = IF outcome.body.t # "text"
                              THEN ErrorField(outcome.body)
                              ELSE Str(HTTPErrorText(outcome.code))

\* C7 as amended: m is the `error` field when the upstream body parses as a
\* JSON object that has one, and the raw error text str(e) otherwise.
C7_RelayUpstreamError ==
    (Terminal /\ outcome.kind = "http_error") =>
        /\ Len(responses) = 1
        /\ responses[1].status = outcome.code /\ responses[1].key = "error"
        /\ responses[1].val = IF outcome.body.t = "dict" /\ ErrorField(outcome.body) # Absent
                              THEN ErrorField(outcome.body)
                              ELSE Str(HTTPErrorText(outcome.code))
        /\ SetCookies(responses[1]) = {}

C7_Witness ==
    /\ pc = "done" /\ outcome.kind = "http_error" /\ outcome.code = 429
    /\ outcome.body.error = Lit("rate limited")
    /\ IsError(responses[1], 429, "rate limited")

\* C8: the `error` field of every failure response of POST is a string.
C8_ErrorIsString ==
    \A r \in Range(responses) : r.key = "error" => r.val.t = "str"

\* The request content is empty or does not parse as JSON.
Unparsable ==
    raw.clen = "nonnumeric" \/ raw.content \in {"empty", "malformed", "deep"}

\* C9: a POST whose body is empty or does not parse (a non-numeric
\* Content-Length included) does not crash and is not failed at parsing: the
\* body is the empty mapping, and the request goes on to the upstream call
\* when VITE_CHATKIT_WORKFLOW_ID is set, and to 400 "Missing workflow id"
\* when it is not.
C9_UnparsableBodyIsEmpty ==
    (method = "POST" /\ body_read /\ Unparsable) =>
        /\ body = EmptyDict
        /\ pc \in {"on_success", "on_http_error", "on_exception"} \cup {"done", "crashed"} =>
              IF Truthy(env.VITE_CHATKIT_WORKFLOW_ID)
              THEN Len(calls) = 1 /\ calls[1].workflow = env.VITE_CHATKIT_WORKFLOW_ID
              ELSE /\ calls = <<>> /\ Len(responses) = 1
                   /\ IsError(responses[1], 400, "Missing workflow id")

\* The call failed otherwise than by an upstream HTTP error: urlopen raised, or
\* the 2xx body could not be read as a JSON object.
CallFailed ==
    \/ outcome.kind \in {"url_error", "timeout"}
    \/ outcome.kind = "ok" /\ outcome.body.t \in {"text", "list"}

\* C10: a POST issues at most one upstream call; when the call fails otherwise
\* than by an upstream HTTP error the answer is 502 {"error": "Failed to reach
\* ChatKit API: <details>"} and the call is not repeated.
C10_NoRetry ==
    /\ Len(calls) <= 1
    /\ (Terminal /\ CallFailed) =>
          /\ Len(calls) = 1
          /\ Len(responses) = 1
          /\ responses[1].status = 502 /\ responses[1].key = "error"
          /\ responses[1].val.t = "str"
          /\ StartsWith(responses[1].val.s, <<"Failed to reach ChatKit API: ">>)
          /\ Len(responses[1].val.s) = 2
          /\ outcome.kind = "timeout" => responses[1].val.s[2] = ExcText("timeout")[1]

C10_Witness ==
    /\ pc = "done" /\ outcome.kind = "timeout"
    /\ Len(calls) = 1
    /\ responses[1].status = 502
    /\ responses[1].val = Str(<<"Failed to reach ChatKit API: ">> \o ExcText("timeout"))

====
